---- MODULE Spec2Model ----
(***************************************************************************)
(* JoulIAna (src/main.py): a POP3 watcher thread (ciclo_correos) and a     *)
(* Telegram chat handler (responder_chat) that share the BotState record.  *)
(* Text is modelled as sequences of one-character strings, so that split,  *)
(* replace, lower and substring tests are computed as Python computes them.*)
(***************************************************************************)
EXTENDS Integers, Sequences, FiniteSets, TLC

VARIABLES
    \* ---- ciclo_correos (watcher thread) ----
    wpc,              \* position of the watcher inside its while-True loop
    uids_conocidos,   \* local: set of known UIDs
    primera_vuelta,   \* local: TRUE until the first successful listing
    uids_actuales,    \* local: UIDs of the last successful listing
    uid_map,          \* local: UID -> message number of the last listing
    pendientes,       \* elements of `nuevos` the for-loop has not visited yet
    uid,              \* loop variable of `for uid in nuevos`
    remitente,        \* local: raw From header of the message being processed
    sesion,           \* TRUE while a POP3 session is open (pop_conn not quit)
    \* ---- BotState (shared) ----
    ultimo_remitente,
    ultimo_asunto,
    modo_respuesta,
    modo_ticket,
    \* ---- responder_chat (chat handler) ----
    cpc,              \* worker thread -> its position inside a chat turn
    entrada,          \* worker thread -> message.text while it still reads it
    turno,            \* the turn of one thread: text, prompt data, replies,
                      \* mail
    en_serie,         \* TRUE while no two turns have ever overlapped
    \* ---- observation of the environment ----
    notificaciones,   \* UID -> number of alerts pushed for it (saturating)
    ciclo,            \* what the current poll cycle saw and did
    servidor_perdio,  \* TRUE once a listing lacked a UID of the previous one
    historia          \* whether the two cross-cycle records above are kept

wvars == <<wpc, uids_conocidos, primera_vuelta, uids_actuales, uid_map,
           pendientes, uid, remitente, sesion>>
svars == <<ultimo_remitente, ultimo_asunto, modo_respuesta, modo_ticket>>
cvars == <<cpc, entrada, turno, en_serie>>
ovars == <<notificaciones, ciclo, servidor_perdio, historia>>
vars  == <<wvars, svars, cvars, ovars>>

\* The worker threads that run responder_chat. Line 94 builds the bot with the
\* library's defaults, under which infinity_polling (line 407) hands each
\* message to a pool of two threads; nothing in responder_chat takes a lock.
Manejadores == {"A", "B"}

\* the worker thread whose turns are recorded in `turno`
Observado == "A"

-----------------------------------------------------------------------------
(* Bounds *)

NumUids  == 2      \* size of the universe of mailbox identifiers
MaxNotif == 2      \* the alert counter of a UID saturates here
MaxLen   == 4      \* longest sender string of the address-extraction check

-----------------------------------------------------------------------------
(* Text *)

None == <<"None">>          \* Python None; no text is a sequence of this shape

\* The alphabet of the model: ASCII, the accented letters of Spanish written
\* as digraphs (A' E' I' O' U' U: N~ and a' e' i' o' u' u: n~), and the
\* white space of Unicode written by code point. str.lower() on it:
Mayus == <<"A","B","C","D","E","F","G","H","I","J","K","L","M","N","O","P",
           "Q","R","S","T","U","V","W","X","Y","Z",
           "A'","E'","I'","O'","U'","U:","N~">>
Minus == <<"a","b","c","d","e","f","g","h","i","j","k","l","m","n","o","p",
           "q","r","s","t","u","v","w","x","y","z",
           "a'","e'","i'","o'","u'","u:","n~">>

LowerChar(c) ==
    IF \E i \in 1..Len(Mayus) : Mayus[i] = c
    THEN Minus[CHOOSE i \in 1..Len(Mayus) : Mayus[i] = c]
    ELSE c

\* str.lower()
Lower(s) == [i \in 1..Len(s) |-> LowerChar(s[i])]

\* k in s   (substring test)
Contiene(s, k) ==
    \E i \in 1..(Len(s) - Len(k) + 1) : SubSeq(s, i, i + Len(k) - 1) = k

\* any(k in s for k in ks)
ContieneAlguna(s, ks) == \E k \in ks : Contiene(s, k)

\* c in s   (single character)
TieneChar(s, c) == \E i \in 1..Len(s) : s[i] = c

\* s.split(c): the segments between the occurrences of the character c
RECURSIVE Split(_, _)
Split(s, c) ==
    IF ~TieneChar(s, c) THEN <<s>>
    ELSE LET i == CHOOSE j \in 1..Len(s) :
                      s[j] = c /\ \A k \in 1..(j - 1) : s[k] # c
         IN  <<SubSeq(s, 1, i - 1)>> \o Split(SubSeq(s, i + 1, Len(s)), c)

\* s.replace(c, "")
RECURSIVE Quitar(_, _)
Quitar(s, c) ==
    IF s = <<>> THEN <<>>
    ELSE (IF Head(s) = c THEN <<>> ELSE <<Head(s)>>) \o Quitar(Tail(s), c)

\* the characters str.strip() removes (str.isspace)
Blancos ==
    {" ", "\t", "\n", "\r", "\f", "U+000B", "U+001C", "U+001D", "U+001E",
     "U+001F", "U+0085", "U+00A0", "U+1680", "U+2000", "U+2001", "U+2002",
     "U+2003", "U+2004", "U+2005", "U+2006", "U+2007", "U+2008", "U+2009",
     "U+200A", "U+2028", "U+2029", "U+202F", "U+205F", "U+3000"}

\* str.strip()
RECURSIVE StripIzq(_)
StripIzq(s) ==
    IF s # <<>> /\ Head(s) \in Blancos THEN StripIzq(Tail(s)) ELSE s

RECURSIVE StripDer(_)
StripDer(s) ==
    IF s # <<>> /\ s[Len(s)] \in Blancos
    THEN StripDer(SubSeq(s, 1, Len(s) - 1)) ELSE s

Strip(s) == StripDer(StripIzq(s))

\* Python truthiness of an Optional[str]
Truthy(s) == s # None /\ s # <<>>

-----------------------------------------------------------------------------
(* The mailbox as the POP3 server presents it *)

UidChars == <<"a", "b", "c", "d", "e">>
Uids     == { <<UidChars[i]>> : i \in 1..NumUids }

Digitos == <<"0","1","2","3","4","5","6","7","8","9">>

\* decimal rendering of a message number, as the server prints it
RECURSIVE Str(_)
Str(n) == IF n < 10 THEN <<Digitos[n + 1]>>
          ELSE Str(n \div 10) \o <<Digitos[(n % 10) + 1]>>

EsDigito(c) == \E i \in 1..10 : Digitos[i] = c
ValorDigito(c) == (CHOOSE i \in 1..10 : Digitos[i] = c) - 1

\* the white space int() skips at both ends of its argument
BlancosInt == Blancos \ {"U+001C", "U+001D", "U+001E", "U+001F"}

RECURSIVE SinBlancosInt(_)
SinBlancosInt(s) ==
    IF s # <<>> /\ Head(s) \in BlancosInt THEN SinBlancosInt(Tail(s))
    ELSE IF s # <<>> /\ s[Len(s)] \in BlancosInt
    THEN SinBlancosInt(SubSeq(s, 1, Len(s) - 1))
    ELSE s

TieneSigno(s) == s # <<>> /\ Head(s) \in {"+", "-"}

\* the digits of an int() literal: after the white space and the sign
CifrasDe(s) ==
    LET t == SinBlancosInt(s) IN IF TieneSigno(t) THEN Tail(t) ELSE t

\* int(s) returns (it raises ValueError otherwise): white space, an optional
\* sign, then decimal digits with single underscores between them
EsEntero(s) ==
    LET d == CifrasDe(s)
    IN  /\ d # <<>>
        /\ EsDigito(d[1]) /\ EsDigito(d[Len(d)])
        /\ \A i \in 1..Len(d) : EsDigito(d[i]) \/ d[i] = "_"
        /\ \A i \in 1..(Len(d) - 1) : ~(d[i] = "_" /\ d[i + 1] = "_")

\* the value of a run of digits and underscores
RECURSIVE ValorCifras(_)
ValorCifras(d) ==
    IF d = <<>> THEN 0
    ELSE IF d[Len(d)] = "_" THEN ValorCifras(SubSeq(d, 1, Len(d) - 1))
    ELSE 10 * ValorCifras(SubSeq(d, 1, Len(d) - 1)) + ValorDigito(d[Len(d)])

\* int(s), for an s that EsEntero accepts
ParseInt(s) ==
    LET t == SinBlancosInt(s)
    IN  IF TieneSigno(t) /\ Head(t) = "-" THEN 0 - ValorCifras(Tail(t))
        ELSE ValorCifras(CifrasDe(s))

\* the UIDs of S in mailbox order
RECURSIVE EnOrden(_, _)
EnOrden(S, i) ==
    IF i > NumUids THEN <<>>
    ELSE (IF <<UidChars[i]>> \in S THEN << <<UidChars[i]>> >> ELSE <<>>)
         \o EnOrden(S, i + 1)

\* the UIDL response for a mailbox holding S: one line "<n> <uid>" per message,
\* numbered from 1 within the session
ServerItems(S) ==
    LET us == EnOrden(S, 1)
    IN  [n \in 1..Len(us) |-> Str(n) \o <<" ">> \o us[n]]

\* lines the server may send that are no "<n> <uid>": a lone field, and a
\* first field that int() rejects
LineasMalas == { <<"9">>, <<"x", " ", "a">> }

\* what pop_conn.uidl() may return as `items`: the listing of the mailbox,
\* alone or after one such line
Listados ==
    { ServerItems(S) : S \in SUBSET Uids }
    \cup { <<l>> \o ServerItems(S) : l \in LineasMalas, S \in SUBSET Uids }

\* obtener_lista_uids_con_mapa: the state of (uids, uid_map) after the for-loop
\* has run over `items`; ok = FALSE when int(parts[0]) raised on some line
RECURSIVE ListaUids(_, _)
ListaUids(items, acc) ==
    IF items = <<>> \/ ~acc.ok THEN acc
    ELSE LET parts == Split(Head(items), " ")
         IN  IF Len(parts) >= 2
             THEN IF EsEntero(parts[1])
                  THEN ListaUids(Tail(items),
                         [ok   |-> TRUE,
                          uids |-> acc.uids \cup {parts[2]},
                          mapa |-> [u \in DOMAIN acc.mapa \cup {parts[2]} |->
                                      IF u = parts[2] THEN ParseInt(parts[1])
                                      ELSE acc.mapa[u]]])
                  ELSE [acc EXCEPT !.ok = FALSE]
             ELSE ListaUids(Tail(items), acc)

MapaVacio == [u \in {} |-> 0]

obtener_lista_uids_con_mapa(items) ==
    ListaUids(items, [ok |-> TRUE, uids |-> {}, mapa |-> MapaVacio])

\* uid_map.get(uid); None is rendered as 0: both are falsy in `if msg_num:`
MapGet(m, u) == IF u \in DOMAIN m THEN m[u] ELSE 0

Ausente == <<"Ausente">>     \* a header the message does not carry

SinAsunto   == <<"(","S","i","n"," ","A","s","u","n","t","o",")">>
Desconocido == <<"D","e","s","c","o","n","o","c","i","d","o">>

\* One chunk of what email.header.decode_header returns for a Subject: its
\* text under the declared charset (utf-8 when none is declared), its text
\* under latin-1 with the undecodable bytes dropped, and whether the first
\* decoding works ("no" failure), raises UnicodeDecodeError ("unicode") or
\* names a charset Python does not know ("charset": LookupError)
Trozo(t) == [texto |-> t, latin1 |-> t, fallo |-> "no"]

\* decode_header raised (HeaderParseError)
ErrorCabecera == << [texto |-> None, latin1 |-> None, fallo |-> "cabecera"] >>

\* the messages a RETR can return: the From header, the Subject header as it
\* stands in the message, and the chunks decode_header makes of the latter.
\* The second subject is "=?utf-8?q?t?= x": an encoded word and plain text.
Mensajes ==
    { [from    |-> <<"J"," ","<","a",">"," ","w">>,
       subject |-> <<"s">>,
       trozos  |-> << Trozo(<<"s">>) >>],
      [from    |-> <<"<",">">>,
       subject |-> <<"=","?","u","t","f","-","8","?","q","?","t","?","=",
                     " ","x">>,
       trozos  |-> << Trozo(<<"t">>), Trozo(<<" ","x">>) >>],
      [from    |-> Ausente,
       subject |-> Ausente,
       trozos  |-> <<>>] }

\* decodificar_texto on a chunk: lines 104-111
decodificar_texto(trozo) ==
    IF trozo.fallo = "unicode" THEN trozo.latin1 ELSE trozo.texto

\* obtener_asunto_y_remitente: only the first chunk of the subject is kept
\* (line 121); an exception of lines 120-122 leaves the header as it came
\* (line 124); the From header is taken as it is
obtener_asunto_y_remitente(msg) ==
    [asunto    |-> IF msg.subject = Ausente \/ msg.subject = <<>>
                   THEN SinAsunto
                   ELSE IF msg.trozos[1].fallo \in {"cabecera", "charset"}
                   THEN msg.subject
                   ELSE decodificar_texto(msg.trozos[1]),
     remitente |-> IF msg.from = Ausente THEN Desconocido ELSE msg.from]

\* lines 352-355: the sanitised sender
EmailLimpio(rem) ==
    IF TieneChar(rem, "<") THEN Quitar(Split(rem, "<")[2], ">") ELSE rem

-----------------------------------------------------------------------------
(* ciclo_correos: the watcher thread *)

Sat(n) == IF n < MaxNotif THEN n + 1 ELSE MaxNotif

\* `items` before uidl() has returned, or when it raised
SinRespuesta == <<None>>

\* the record of one poll cycle, opened when the cycle starts
NuevoCiclo(K, rem, asu) ==
    [K        |-> K,                      \* uids_conocidos when the cycle began
     rem      |-> rem,                    \* state.ultimo_remitente then
     asu      |-> asu,                    \* state.ultimo_asunto then
     items    |-> SinRespuesta,           \* what uidl() returned in this cycle
     listado  |-> FALSE,                  \* the listing of this cycle succeeded
     inicial  |-> FALSE,                  \* the listing ran under primera_vuelta
     enviados |-> [u \in Uids |-> 0],     \* alerts pushed in this cycle, per UID
     fallo    |-> None,                   \* the UID whose processing raised
     fin      |-> "en_curso"]             \* how the cycle ended

\* the cycle record is kept only together with the cross-cycle records
Anotar(c) == IF historia THEN c ELSE ciclo

\* Abortar without the `except Exception` of line 384: the exception ends
\* the thread
Abortar_muere(motivo, u) ==
    /\ wpc' = "muerto"
    /\ pendientes' = {}
    /\ ciclo' = Anotar([ciclo EXCEPT !.fin = motivo, !.fallo = u])

\* line 384-385: `except Exception` ends the cycle; the for-loop is abandoned
Abortar(motivo, u) ==
    /\ wpc' = "dormir"
    /\ pendientes' = {}
    /\ ciclo' = Anotar([ciclo EXCEPT !.fin = motivo, !.fallo = u])

\* WConectar that starts over (empty known set, first round) when the
\* connection fails
WConectar_reinicia(res) ==
    /\ wpc = "conectar"
    /\ sesion' = IF res = "sin_conexion" THEN sesion ELSE TRUE
    /\ IF res = "ok"
       THEN /\ wpc' = "listar"
            /\ UNCHANGED <<pendientes, ciclo, uids_conocidos, primera_vuelta>>
       ELSE /\ Abortar("error_conexion", None)
            /\ uids_conocidos' = {}
            /\ primera_vuelta' = TRUE
    /\ UNCHANGED <<uids_actuales, uid_map, uid, remitente, svars, cvars,
                   notificaciones, servidor_perdio, historia>>

\* WConectar that clears primera_vuelta as soon as a session is authenticated
WConectar_consume(res) ==
    /\ wpc = "conectar"
    /\ sesion' = IF res = "sin_conexion" THEN sesion ELSE TRUE
    /\ IF res = "ok"
       THEN /\ wpc' = "listar"
            /\ primera_vuelta' = FALSE
            /\ UNCHANGED <<pendientes, ciclo>>
       ELSE /\ Abortar("error_conexion", None)
            /\ UNCHANGED primera_vuelta
    /\ UNCHANGED <<uids_conocidos, uids_actuales, uid_map,
                   uid, remitente, svars, cvars, notificaciones,
                   servidor_perdio, historia>>

\* lines 325-327: POP3_SSL(...), user(), pass_(). When POP3_SSL is refused,
\* pop_conn is not rebound: a session that the cycle before left open stays.
WConectar(res) ==
    /\ wpc = "conectar"
    /\ sesion' = IF res = "sin_conexion" THEN sesion ELSE TRUE
    /\ IF res = "ok"
       THEN /\ wpc' = "listar"
            /\ UNCHANGED <<pendientes, ciclo>>
       ELSE Abortar("error_conexion", None)
    /\ UNCHANGED <<uids_conocidos, primera_vuelta, uids_actuales, uid_map,
                   uid, remitente, svars, cvars, notificaciones,
                   servidor_perdio, historia>>

\* WListar without the primera_vuelta branch: the first listing is diffed
\* against the empty known set like any other
WListar_sinInicial(items, uidl_ok) ==
    /\ wpc = "listar"
    /\ LET r == obtener_lista_uids_con_mapa(items)
       IN  IF ~uidl_ok \/ ~r.ok
           THEN /\ wpc' = "dormir"
                /\ pendientes' = {}
                /\ ciclo' = Anotar([ciclo EXCEPT
                                      !.fin = "error_listado",
                                      !.items = IF uidl_ok THEN items
                                                ELSE SinRespuesta])
                /\ UNCHANGED <<uids_conocidos, primera_vuelta, uids_actuales,
                               uid_map, servidor_perdio>>
           ELSE /\ uids_actuales' = r.uids
                /\ uid_map' = r.mapa
                /\ servidor_perdio' =
                       (servidor_perdio \/
                        (historia /\ ~(uids_actuales \subseteq r.uids)))
                /\ pendientes' = r.uids \ uids_conocidos
                /\ wpc' = IF r.uids \ uids_conocidos # {}
                          THEN "bucle" ELSE "cerrar"
                /\ ciclo' = Anotar([ciclo EXCEPT !.listado = TRUE,
                                                 !.items = items,
                                                 !.inicial = primera_vuelta])
                /\ primera_vuelta' = FALSE
                /\ UNCHANGED uids_conocidos
    /\ UNCHANGED <<uid, remitente, sesion, svars, cvars, notificaciones,
                   historia>>

\* lines 329-339: the listing, the initial sync or the set difference.
\* uidl() may raise (uidl_ok = FALSE); so may int() on a line of `items`.
WListar(items, uidl_ok) ==
    /\ wpc = "listar"
    /\ LET r == obtener_lista_uids_con_mapa(items)
       IN  IF ~uidl_ok \/ ~r.ok
           THEN /\ wpc' = "dormir"
                /\ pendientes' = {}
                /\ ciclo' = Anotar([ciclo EXCEPT
                                      !.fin = "error_listado",
                                      !.items = IF uidl_ok THEN items
                                                ELSE SinRespuesta])
                /\ UNCHANGED <<uids_conocidos, primera_vuelta, uids_actuales,
                               uid_map, servidor_perdio>>
           ELSE /\ uids_actuales' = r.uids
                /\ uid_map' = r.mapa
                /\ servidor_perdio' =
                       (servidor_perdio \/
                        (historia /\ ~(uids_actuales \subseteq r.uids)))
                /\ IF primera_vuelta
                   THEN /\ uids_conocidos' = r.uids
                        /\ primera_vuelta' = FALSE
                        /\ pendientes' = {}
                        /\ wpc' = "cerrar"
                        /\ ciclo' = Anotar([ciclo EXCEPT !.listado = TRUE,
                                                         !.items = items,
                                                         !.inicial = TRUE])
                   ELSE /\ pendientes' = r.uids \ uids_conocidos
                        /\ wpc' = IF r.uids \ uids_conocidos # {}
                                  THEN "bucle" ELSE "cerrar"
                        /\ ciclo' = Anotar([ciclo EXCEPT !.listado = TRUE,
                                                         !.items = items])
                        /\ UNCHANGED <<uids_conocidos, primera_vuelta>>
    /\ UNCHANGED <<uid, remitente, sesion, svars, cvars, notificaciones,
                   historia>>

\* WDescargar that logs a failed RETR and goes on with the next element
WDescargar_continua(u, msg, retr_ok) ==
    /\ wpc = "bucle"
    /\ u \in pendientes
    /\ uid' = u
    /\ pendientes' = pendientes \ {u}
    /\ IF MapGet(uid_map, u) = 0 \/ ~retr_ok
       THEN UNCHANGED <<wpc, remitente, ultimo_remitente, ultimo_asunto, ciclo>>
       ELSE LET h == obtener_asunto_y_remitente(msg)
            IN  /\ remitente' = h.remitente
                /\ ultimo_remitente' = EmailLimpio(h.remitente)
                /\ ultimo_asunto' = h.asunto
                /\ wpc' = "notificar"
                /\ UNCHANGED ciclo
    /\ UNCHANGED <<uids_conocidos, primera_vuelta, uids_actuales, uid_map,
                   sesion, modo_respuesta, modo_ticket, cvars, notificaciones,
                   servidor_perdio, historia>>

\* WDescargar under a lock that the handler holds from the prompt to the send
WDescargar_conCandado(u, msg, retr_ok) ==
    /\ \A h \in Manejadores : cpc[h] # "ia"
    /\ wpc = "bucle"
    /\ u \in pendientes
    /\ uid' = u
    /\ IF MapGet(uid_map, u) = 0
       THEN /\ pendientes' = pendientes \ {u}
            /\ UNCHANGED <<wpc, remitente, ultimo_remitente, ultimo_asunto,
                           ciclo>>
       ELSE IF ~retr_ok
       THEN /\ Abortar("error_mensaje", u)
            /\ UNCHANGED <<remitente, ultimo_remitente, ultimo_asunto>>
       ELSE LET h == obtener_asunto_y_remitente(msg)
            IN  /\ pendientes' = pendientes \ {u}
                /\ remitente' = h.remitente
                /\ ultimo_remitente' = EmailLimpio(h.remitente)
                /\ ultimo_asunto' = h.asunto
                /\ wpc' = "notificar"
                /\ UNCHANGED ciclo
    /\ UNCHANGED <<uids_conocidos, primera_vuelta, uids_actuales, uid_map,
                   sesion, modo_respuesta, modo_ticket, cvars, notificaciones,
                   servidor_perdio, historia>>

\* lines 340-359: next element of `nuevos`, RETR, parse, update of BotState
\* (the two assignments of lines 358-359 are one step)
WDescargar(u, msg, retr_ok) ==
    /\ wpc = "bucle"
    /\ u \in pendientes
    /\ uid' = u
    /\ IF MapGet(uid_map, u) = 0
       THEN /\ pendientes' = pendientes \ {u}
            /\ UNCHANGED <<wpc, remitente, ultimo_remitente, ultimo_asunto,
                           ciclo>>
       ELSE IF ~retr_ok
       THEN /\ Abortar("error_mensaje", u)
            /\ UNCHANGED <<remitente, ultimo_remitente, ultimo_asunto>>
       ELSE LET h == obtener_asunto_y_remitente(msg)
            IN  /\ pendientes' = pendientes \ {u}
                /\ remitente' = h.remitente
                /\ ultimo_remitente' = EmailLimpio(h.remitente)
                /\ ultimo_asunto' = h.asunto
                /\ wpc' = "notificar"
                /\ UNCHANGED ciclo
    /\ UNCHANGED <<uids_conocidos, primera_vuelta, uids_actuales, uid_map,
                   sesion, modo_respuesta, modo_ticket, cvars, notificaciones,
                   servidor_perdio, historia>>

\* lines 361-379: summary (preguntar_a_gemini never raises) and the alert
WNotificar(send_ok) ==
    /\ wpc = "notificar"
    /\ IF send_ok
       THEN /\ notificaciones' =
                   IF historia
                   THEN [notificaciones EXCEPT ![uid] = Sat(notificaciones[uid])]
                   ELSE notificaciones
            /\ ciclo' = Anotar([ciclo EXCEPT !.enviados[uid] = @ + 1])
            /\ wpc' = "bucle"
            /\ UNCHANGED pendientes
       ELSE /\ Abortar("error_mensaje", uid)
            /\ UNCHANGED notificaciones
    /\ UNCHANGED <<uids_conocidos, primera_vuelta, uids_actuales, uid_map,
                   uid, remitente, sesion, svars, cvars, servidor_perdio,
                   historia>>

\* WFinBucle that leaves the known set as it was
WFinBucle_sinGuardar ==
    /\ wpc = "bucle"
    /\ pendientes = {}
    /\ wpc' = "cerrar"
    /\ UNCHANGED <<uids_conocidos, primera_vuelta, uids_actuales, uid_map,
                   pendientes, uid, remitente, sesion, svars, cvars, ovars>>

\* line 381: the for-loop is exhausted; still inside `if nuevos:`
WFinBucle ==
    /\ wpc = "bucle"
    /\ pendientes = {}
    /\ uids_conocidos' = uids_actuales
    /\ wpc' = "cerrar"
    /\ UNCHANGED <<primera_vuelta, uids_actuales, uid_map, pendientes, uid,
                   remitente, sesion, svars, cvars, ovars>>

\* line 383: pop_conn.quit()
WCerrar(quit_ok) ==
    /\ wpc = "cerrar"
    /\ wpc' = "dormir"
    /\ sesion' = ~quit_ok
    /\ ciclo' = Anotar([ciclo EXCEPT
                            !.fin = IF quit_ok THEN "ok" ELSE "error_cierre"])
    /\ UNCHANGED <<uids_conocidos, primera_vuelta, uids_actuales, uid_map,
                   pendientes, uid, remitente, svars, cvars, notificaciones,
                   servidor_perdio, historia>>

\* line 387: time.sleep(30), then the next iteration of `while True`
WDormir ==
    /\ wpc = "dormir"
    /\ wpc' = "conectar"
    /\ ciclo' = Anotar(NuevoCiclo(uids_conocidos, ultimo_remitente,
                               ultimo_asunto))
    /\ UNCHANGED <<uids_conocidos, primera_vuelta, uids_actuales, uid_map,
                   pendientes, uid, remitente, sesion, svars, cvars,
                   notificaciones, servidor_perdio, historia>>

Vigia ==
    \/ \E res \in {"ok", "sin_conexion", "sin_autenticacion"} : WConectar(res)
    \/ \E items \in Listados : WListar(items, TRUE)
    \/ WListar(SinRespuesta, FALSE)
    \/ \E u \in Uids, msg \in Mensajes, ok \in BOOLEAN : WDescargar(u, msg, ok)
    \/ \E ok \in BOOLEAN : WNotificar(ok)
    \/ WFinBucle
    \/ \E ok \in BOOLEAN : WCerrar(ok)
    \/ WDormir


-----------------------------------------------------------------------------
(* preguntar_a_gemini and enviar_correo_respuesta *)

\* accented letters and the warning sign are written as ASCII digraphs
ErrorIA ==
    <<"(!)"," ","E","r","r","o","r",":"," ","L","a"," ","I","A"," ","n","o",
      " ","e","s","t","a'"," ","d","i","s","p","o","n","i","b","l","e"," ",
      "e","n"," ","e","s","t","e"," ","m","o","m","e","n","t","o",".">>

\* texts the model may generate (response.text)
RespuestasIA == { <<"o","k">>, <<"F","a","l","l","a"," ">> }

\* preguntar_a_gemini: the stripped text, or the placeholder when the call raised
preguntar_a_gemini(ia_ok, texto) == IF ia_ok THEN Strip(texto) ELSE ErrorIA

\* how an f-string renders an Optional[str]
Fmt(x) == IF x = None THEN <<"N","o","n","e">> ELSE x

\* enviar_correo_respuesta with the subject passed through as it came
enviar_correo_respuesta_sinRe(destinatario, asunto, cuerpo_ia, smtp_ok) ==
    [para   |-> destinatario,
     asunto |-> Fmt(asunto),
     cuerpo |-> cuerpo_ia,
     exito  |-> smtp_ok]

\* enviar_correo_respuesta: the message handed to SMTP and the value returned
enviar_correo_respuesta(destinatario, asunto, cuerpo_ia, smtp_ok) ==
    [para   |-> destinatario,
     asunto |-> <<"R","e",":"," ">> \o Fmt(asunto),
     cuerpo |-> cuerpo_ia,
     exito  |-> smtp_ok]

-----------------------------------------------------------------------------
(* responder_chat: chat turns *)

KwTicketSi == { <<"s","i">>, <<"s","i'">>, <<"c","l","a","r","o">>,
                <<"p","o","r"," ","f","a","v","o","r">>,
                <<"h","a","z","l","o">>, <<"s","i","m","o","n">> }

KwResponder == { <<"s","i">>, <<"s","i'">>, <<"c","l","a","r","o">>,
                 <<"r","e","s","p","o","n","d","e","r">>, <<"o","k">>,
                 <<"s","i","m","o","n">> }

KwNo == { <<"n","o">>, <<"n","e","l">>, <<"n","o","p">>,
          <<"l","u","e","g","o">>, <<"g","r","a","c","i","a","s">> }

KwIncidencia == { <<"t","i","c","k","e","t">>,
                  <<"i","n","c","i","d","e","n","c","i","a">>,
                  <<"s","o","p","o","r","t","e">>, <<"f","a","l","l","a">> }

\* chat lines the operator may type (message.text)
Textos == { <<"n","o">>, <<"N","o"," ","S","I'">>, <<"h","a","z","l","o">> }

\* the record of the turn of the handler Observado; blank between its turns,
\* and no longer kept once two turns have overlapped
TurnoVacio ==
    [texto      |-> None,      \* message.text
     inicio     |-> "ninguno", \* branch of the handler the turn took
     prompt     |-> None,      \* <<sender, subject>> embedded in the prompt
     pendiente  |-> FALSE,     \* line 291 found state.ultimo_remitente truthy
     desfase    |-> FALSE,     \* the mail went out with another sender or
                               \* subject than the prompt embedded
     ia         |-> 0,         \* calls of preguntar_a_gemini
     respuestas |-> <<>>,      \* messages delivered to the chat, in order
     correos    |-> <<>>,      \* calls of enviar_correo_respuesta, in order
     fin        |-> "ninguno"] \* "ok": the handler returned; "excepcion": a
                               \* Telegram call raised and ended the handler

\* the handler h moves to position p
Al(h, p) == [cpc EXCEPT ![h] = p]

\* where a handler that returns or raises is left: the thread is free for the
\* next message; the observed one first shows the record of its turn
Salida(h) == IF h = Observado /\ en_serie THEN "fin" ELSE "espera"

\* the record after a step of h: only the observed handler writes it
Reg(h, r) == IF h = Observado /\ en_serie THEN r ELSE turno

\* lines 205-216: a worker thread takes a message and tests state.modo_ticket.
\* The turns stop being serial once it does so while another is in flight.
CRecibir(h, txt) ==
    /\ cpc[h] = "espera"
    /\ cpc' = Al(h, IF modo_ticket THEN "ticket" ELSE "modo")
    /\ entrada' = [entrada EXCEPT ![h] = txt]
    /\ IF \E k \in Manejadores \ {h} : cpc[k] # "espera"
       THEN /\ en_serie' = FALSE
            /\ turno' = TurnoVacio
       ELSE /\ UNCHANGED en_serie
            /\ turno' = Reg(h, [TurnoVacio EXCEPT
                                  !.texto = txt,
                                  !.inicio = IF modo_ticket THEN "ticket"
                                             ELSE "ninguno",
                                  !.fin = "en_curso"])
    /\ UNCHANGED <<wvars, svars, ovars>>

\* line 237: the test of state.modo_respuesta
CModo(h) ==
    /\ cpc[h] = "modo"
    /\ cpc' = Al(h, IF modo_respuesta THEN "redactar" ELSE "libre")
    /\ turno' = Reg(h, [turno EXCEPT
                          !.inicio = IF modo_respuesta THEN "respuesta"
                                     ELSE "libre"])
    /\ UNCHANGED <<entrada, en_serie, wvars, svars, ovars>>

\* CTicket with line 233 inside the affirmative branch only
CTicket_soloSi(h, tg_ok) ==
    /\ cpc[h] = "ticket"
    /\ LET usuario_input == Lower(entrada[h])
           si == ContieneAlguna(usuario_input, KwTicketSi)
           r  == IF si THEN "ticket_creado" ELSE "sin_ticket"
       IN  /\ turno' = Reg(h, [turno EXCEPT
                                 !.respuestas = IF tg_ok THEN <<r>> ELSE <<>>,
                                 !.fin = IF tg_ok THEN "ok" ELSE "excepcion"])
           /\ modo_ticket' = IF tg_ok /\ si THEN FALSE ELSE modo_ticket
    /\ cpc' = Al(h, Salida(h))
    /\ entrada' = [entrada EXCEPT ![h] = None]
    /\ UNCHANGED <<en_serie, wvars, ultimo_remitente, ultimo_asunto,
                   modo_respuesta, ovars>>

\* lines 217-234, entered when line 216 found the flag set: the Telegram
\* calls and the sleep, then line 233, which writes the flag without reading
\* it again. send_chat_action/reply_to raising skips line 233.
CTicket(h, tg_ok) ==
    /\ cpc[h] = "ticket"
    /\ LET usuario_input == Lower(entrada[h])
           r == IF ContieneAlguna(usuario_input, KwTicketSi)
                THEN "ticket_creado" ELSE "sin_ticket"
       IN  turno' = Reg(h, [turno EXCEPT
                              !.respuestas = IF tg_ok THEN <<r>> ELSE <<>>,
                              !.fin = IF tg_ok THEN "ok" ELSE "excepcion"])
    /\ modo_ticket' = IF tg_ok THEN FALSE ELSE modo_ticket
    /\ cpc' = Al(h, Salida(h))
    /\ entrada' = [entrada EXCEPT ![h] = None]
    /\ UNCHANGED <<en_serie, wvars, ultimo_remitente, ultimo_asunto,
                   modo_respuesta, ovars>>

\* lines 238-264: the "redactando" notice and the prompt, which embeds
\* state.ultimo_remitente and state.ultimo_asunto as they are now and reads
\* message.text for the last time
CRedactar(h, tg_ok) ==
    /\ cpc[h] = "redactar"
    /\ IF tg_ok
       THEN /\ turno' = Reg(h, [turno EXCEPT
                                  !.respuestas = <<"redactando">>,
                                  !.prompt = <<ultimo_remitente,
                                               ultimo_asunto>>])
            /\ cpc' = Al(h, "ia")
       ELSE /\ turno' = Reg(h, [turno EXCEPT !.fin = "excepcion"])
            /\ cpc' = Al(h, Salida(h))
    /\ entrada' = [entrada EXCEPT ![h] = None]
    /\ UNCHANGED <<en_serie, wvars, svars, ovars>>

\* lines 265-271 and 283-284: the draft, the SMTP send, which reads
\* state.ultimo_remitente and state.ultimo_asunto again (line 268), and the
\* reply that tells how it went. tg_ok = FALSE: that reply_to raised. From
\* here on the record keeps what was sent instead of what was typed and
\* prompted. Line 275 sends the handler on to the suggestion when the send
\* succeeded and the draft has a support-incident keyword.
CEnviar(h, texto_ia, ia_ok, smtp_ok, tg_ok) ==
    /\ cpc[h] = "ia"
    /\ LET cuerpo_final == preguntar_a_gemini(ia_ok, texto_ia)
           correo == enviar_correo_respuesta(ultimo_remitente, ultimo_asunto,
                                             cuerpo_final, smtp_ok)
           kw     == ContieneAlguna(Lower(cuerpo_final), KwIncidencia)
           actual == <<ultimo_remitente, ultimo_asunto>>
           aviso  == IF smtp_ok THEN "enviado" ELSE "error_smtp"
       IN  IF tg_ok
           THEN /\ turno' = Reg(h, [turno EXCEPT
                                      !.texto = None, !.prompt = None,
                                      !.desfase = (turno.prompt # actual),
                                      !.ia = @ + 1,
                                      !.correos = Append(@, correo),
                                      !.respuestas = Append(@, aviso)])
                /\ cpc' = Al(h, IF smtp_ok /\ kw THEN "sugerir" ELSE "limpiar")
           ELSE /\ turno' = Reg(h, [turno EXCEPT
                                      !.texto = None, !.prompt = None,
                                      !.desfase = (turno.prompt # actual),
                                      !.ia = @ + 1,
                                      !.correos = Append(@, correo),
                                      !.fin = "excepcion"])
                /\ cpc' = Al(h, Salida(h))
    /\ UNCHANGED <<entrada, en_serie, wvars, svars, ovars>>

\* lines 276-282: the sleep, the suggestion of the ticket and, unless
\* send_message raised, line 282, which sets the flag while modo_respuesta is
\* still as it was
CSugerir(h, tg_ok) ==
    /\ cpc[h] = "sugerir"
    /\ IF tg_ok
       THEN /\ turno' = Reg(h, [turno EXCEPT
                                  !.respuestas = Append(@, "sugerencia")])
            /\ modo_ticket' = TRUE
            /\ cpc' = Al(h, "limpiar")
       ELSE /\ turno' = Reg(h, [turno EXCEPT !.fin = "excepcion"])
            /\ UNCHANGED modo_ticket
            /\ cpc' = Al(h, Salida(h))
    /\ UNCHANGED <<entrada, en_serie, wvars, ultimo_remitente, ultimo_asunto,
                   modo_respuesta, ovars>>

\* CLimpiar without line 286
CLimpiar_sinLimpiar(h) ==
    /\ cpc[h] = "limpiar"
    /\ turno' = Reg(h, [turno EXCEPT !.fin = "ok"])
    /\ cpc' = Al(h, Salida(h))
    /\ UNCHANGED <<entrada, en_serie, wvars, svars, ovars>>

\* CLimpiar that forgets the pending mail once it is answered
CLimpiar_borra(h) ==
    /\ cpc[h] = "limpiar"
    /\ modo_respuesta' = FALSE
    /\ ultimo_remitente' = None
    /\ ultimo_asunto' = None
    /\ turno' = Reg(h, [turno EXCEPT !.fin = "ok"])
    /\ cpc' = Al(h, Salida(h))
    /\ UNCHANGED <<entrada, en_serie, wvars, modo_ticket, ovars>>

\* lines 286-287
CLimpiar(h) ==
    /\ cpc[h] = "limpiar"
    /\ modo_respuesta' = FALSE
    /\ turno' = Reg(h, [turno EXCEPT !.fin = "ok"])
    /\ cpc' = Al(h, Salida(h))
    /\ UNCHANGED <<entrada, en_serie, wvars, ultimo_remitente, ultimo_asunto,
                   modo_ticket, ovars>>

\* CLibre without the test of line 291: an affirmative line always opens the
\* reply mode
CLibre_sinPendiente(h, tg_ok) ==
    /\ cpc[h] = "libre"
    /\ LET usuario_input == Lower(entrada[h])
           si == ContieneAlguna(usuario_input, KwResponder)
           no == ContieneAlguna(usuario_input, KwNo)
           r  == IF si THEN "que_respondemos"
                 ELSE IF no THEN "enterado"
                 ELSE "charla"
       IN  /\ modo_respuesta' = IF si THEN TRUE ELSE modo_respuesta
           /\ turno' = Reg(h, [turno EXCEPT
                          !.pendiente = Truthy(ultimo_remitente),
                          !.ia = IF ~si /\ ~no THEN 1 ELSE 0,
                          !.respuestas = IF tg_ok THEN <<r>> ELSE <<>>,
                          !.fin = IF tg_ok THEN "ok" ELSE "excepcion"])
    /\ cpc' = Al(h, Salida(h))
    /\ entrada' = [entrada EXCEPT ![h] = None]
    /\ UNCHANGED <<en_serie, wvars, ultimo_remitente, ultimo_asunto,
                   modo_ticket, ovars>>

\* CLibre without the `elif` of lines 297-298: what is not affirmative goes
\* to the model
CLibre_sinNo(h, tg_ok) ==
    /\ cpc[h] = "libre"
    /\ LET usuario_input == Lower(entrada[h])
           si == ContieneAlguna(usuario_input, KwResponder)
           r  == IF si THEN (IF Truthy(ultimo_remitente)
                             THEN "que_respondemos" ELSE "sin_correos")
                 ELSE "charla"
       IN  /\ modo_respuesta' =
                  IF si /\ Truthy(ultimo_remitente) THEN TRUE ELSE modo_respuesta
           /\ turno' = Reg(h, [turno EXCEPT
                          !.pendiente = Truthy(ultimo_remitente),
                          !.ia = IF ~si THEN 1 ELSE 0,
                          !.respuestas = IF tg_ok THEN <<r>> ELSE <<>>,
                          !.fin = IF tg_ok THEN "ok" ELSE "excepcion"])
    /\ cpc' = Al(h, Salida(h))
    /\ entrada' = [entrada EXCEPT ![h] = None]
    /\ UNCHANGED <<en_serie, wvars, ultimo_remitente, ultimo_asunto,
                   modo_ticket, ovars>>

\* lines 289-306, entered when lines 216 and 237 found both flags clear. What
\* preguntar_a_gemini returns at line 305, its error text included, is the
\* reply "charla".
CLibre(h, tg_ok) ==
    /\ cpc[h] = "libre"
    /\ LET usuario_input == Lower(entrada[h])
           si == ContieneAlguna(usuario_input, KwResponder)
           no == ContieneAlguna(usuario_input, KwNo)
           r  == IF si THEN (IF Truthy(ultimo_remitente)
                             THEN "que_respondemos" ELSE "sin_correos")
                 ELSE IF no THEN "enterado"
                 ELSE "charla"
       IN  /\ modo_respuesta' =
                  IF si /\ Truthy(ultimo_remitente) THEN TRUE ELSE modo_respuesta
           /\ turno' = Reg(h, [turno EXCEPT
                          !.pendiente = Truthy(ultimo_remitente),
                          !.ia = IF ~si /\ ~no THEN 1 ELSE 0,
                          !.respuestas = IF tg_ok THEN <<r>> ELSE <<>>,
                          !.fin = IF tg_ok THEN "ok" ELSE "excepcion"])
    /\ cpc' = Al(h, Salida(h))
    /\ entrada' = [entrada EXCEPT ![h] = None]
    /\ UNCHANGED <<en_serie, wvars, ultimo_remitente, ultimo_asunto,
                   modo_ticket, ovars>>

\* the observed handler is over
TurnoTerminado == cpc[Observado] = "fin"

\* the record of the finished turn is read and blanked; the thread has
\* already returned to the pool
CRetornar ==
    /\ TurnoTerminado
    /\ cpc' = Al(Observado, "espera")
    /\ turno' = TurnoVacio
    /\ UNCHANGED <<entrada, en_serie, wvars, svars, ovars>>

\* responder_chat on each worker thread
Chat ==
    \/ \E h \in Manejadores :
        \/ \E txt \in Textos : CRecibir(h, txt)
        \/ CModo(h)
        \/ \E ok \in BOOLEAN : CTicket(h, ok)
        \/ \E ok \in BOOLEAN : CRedactar(h, ok)
        \/ \E t \in RespuestasIA, ia_ok \in BOOLEAN, smtp_ok \in BOOLEAN,
              ok \in BOOLEAN : CEnviar(h, t, ia_ok, smtp_ok, ok)
        \/ \E ok \in BOOLEAN : CSugerir(h, ok)
        \/ CLimpiar(h)
        \/ \E ok \in BOOLEAN : CLibre(h, ok)
    \/ CRetornar

-----------------------------------------------------------------------------
(* The system *)

Arranque(h) ==
    /\ wpc = "conectar"
    /\ uids_conocidos = {}
    /\ primera_vuelta = TRUE
    /\ uids_actuales = {}
    /\ uid_map = MapaVacio
    /\ pendientes = {}
    /\ uid = None
    /\ remitente = None
    /\ sesion = FALSE
    /\ ultimo_remitente = None
    /\ ultimo_asunto = None
    /\ modo_respuesta = FALSE
    /\ modo_ticket = FALSE
    /\ cpc = [m \in Manejadores |-> "espera"]
    /\ entrada = [m \in Manejadores |-> None]
    /\ turno = TurnoVacio
    /\ en_serie = TRUE
    /\ notificaciones = [u \in Uids |-> 0]
    /\ ciclo = NuevoCiclo({}, None, None)
    /\ servidor_perdio = FALSE
    /\ historia = h

\* The watcher thread and the chat handler, interleaved. The handler never
\* assigns a local of the watcher nor ultimo_remitente/ultimo_asunto, and the
\* watcher never reads a mode flag, so the records of the watcher's alerts are
\* kept (historia) only where the watcher is studied on its own, in SpecVigia.
\* Nothing orders the worker threads among themselves either: once two turns
\* have overlapped (en_serie is FALSE) the mode flags may be in any
\* combination between turns.
Init == Arranque(FALSE)

Next == Vigia \/ Chat

Spec == Init /\ [][Next]_vars

\* the watcher thread on its own, with the record of alerts across cycles
InitVigia == Arranque(TRUE)

NextVigia == Vigia

SpecVigia == InitVigia /\ [][NextVigia]_vars

\* the watcher thread on its own, kept running: the entry point starts it
\* once, nothing stops it, and every call it makes returns or raises
\* (timeout=10 on the POP3 socket, time.sleep(30))
SpecVigiaJusta == Init /\ [][NextVigia]_vars /\ WF_vars(NextVigia)

\* lines 351-358 applied to one sender string
Alfabeto == {"a", "<", ">"}

Remitentes == UNION { [1..n -> Alfabeto] : n \in 0..MaxLen }

Sanear ==
    /\ wpc = "sanear"
    /\ wpc' = "saneado"
    /\ ultimo_remitente' = EmailLimpio(remitente)
    /\ UNCHANGED <<uids_conocidos, primera_vuelta, uids_actuales, uid_map,
                   pendientes, uid, remitente, sesion, ultimo_asunto,
                   modo_respuesta, modo_ticket, cvars, ovars>>

InitLimpio ==
    /\ wpc = "sanear"
    /\ uids_conocidos = {}
    /\ primera_vuelta = FALSE
    /\ uids_actuales = {}
    /\ uid_map = MapaVacio
    /\ pendientes = {}
    /\ uid = None
    /\ remitente \in Remitentes
    /\ sesion = TRUE
    /\ ultimo_remitente = None
    /\ ultimo_asunto = None
    /\ modo_respuesta = FALSE
    /\ modo_ticket = FALSE
    /\ cpc = [m \in Manejadores |-> "espera"]
    /\ entrada = [m \in Manejadores |-> None]
    /\ turno = TurnoVacio
    /\ en_serie = TRUE
    /\ notificaciones = [u \in Uids |-> 0]
    /\ ciclo = NuevoCiclo({}, None, None)
    /\ servidor_perdio = FALSE
    /\ historia = FALSE

NextLimpio == Sanear

SpecLimpio == InitLimpio /\ [][NextLimpio]_vars

-----------------------------------------------------------------------------
(* Properties of the watcher (checked under SpecVigia) *)

CicloTerminado == wpc = "dormir"

\* C1 -- New-mail detection: a poll cycle after the initial sync that lists a
\* set S containing the known set K and ends without error has pushed exactly
\* one alert for each UID of S \ K, none for any other UID, and leaves
\* uids_conocidos = S.
DeteccionDeNuevos ==
    (/\ CicloTerminado
     /\ ciclo.fin = "ok"
     /\ ~ciclo.inicial
     /\ ciclo.K \subseteq uids_actuales)
    => /\ \A u \in Uids :
              ciclo.enviados[u] = IF u \in uids_actuales \ ciclo.K THEN 1 ELSE 0
       /\ uids_conocidos = uids_actuales

DeteccionDeNuevosTestigo ==
    /\ CicloTerminado
    /\ ciclo.fin = "ok"
    /\ ~ciclo.inicial
    /\ ciclo.K # {}
    /\ ciclo.K \subseteq uids_actuales
    /\ uids_actuales \ ciclo.K # {}
    /\ \A u \in uids_actuales \ ciclo.K : ciclo.enviados[u] = 1

\* C2 -- Initial-sync suppression: the first cycle that lists successfully
\* pushes no alert, whatever the mailbox holds, and leaves uids_conocidos equal
\* to the listing; no alert at all is pushed before it.
SincronizacionInicial ==
    /\ ciclo.inicial =>
          /\ wpc \in {"cerrar", "dormir"}
          /\ \A u \in Uids : ciclo.enviados[u] = 0
          /\ uids_conocidos = uids_actuales
          /\ ~primera_vuelta
    /\ (primera_vuelta \/ ciclo.inicial) =>
          \A u \in Uids : notificaciones[u] = 0

SincronizacionInicialTestigo ==
    /\ CicloTerminado
    /\ ciclo.inicial
    /\ uids_conocidos = Uids

\* C3 -- Failed-cycle isolation: a cycle whose connection or authentication
\* step failed has pushed no alert, leaves uids_conocidos and the pending
\* sender and subject as they were when the cycle began, and the watcher is
\* asleep with the next cycle ahead of it.
CicloFallidoAislado ==
    (ciclo.fin = "error_conexion")
    => /\ \A u \in Uids : ciclo.enviados[u] = 0
       /\ uids_conocidos = ciclo.K
       /\ ultimo_remitente = ciclo.rem
       /\ ultimo_asunto = ciclo.asu
       /\ wpc = "dormir"
       /\ ENABLED (WDormir /\ wpc' = "conectar")

CicloFallidoAisladoTestigo ==
    /\ CicloTerminado
    /\ ciclo.fin = "error_conexion"
    /\ ciclo.K # {}
    /\ Truthy(ultimo_remitente)

\* C4 -- No duplicate notifications: as long as the server never drops a UID
\* from its listing, no UID has more than one alert pushed for it, whatever
\* cycles aborted in between.
SinDuplicados ==
    ~servidor_perdio => \A u \in Uids : notificaciones[u] <= 1

\* C8 -- Full re-sync: after every cycle following the initial sync that ends
\* without error, uids_conocidos equals the listing of that cycle, also when
\* the listing has nothing new and lacks UIDs that were known.
ResincronizacionTotal ==
    (CicloTerminado /\ ciclo.fin = "ok" /\ ~ciclo.inicial)
    => uids_conocidos = uids_actuales

\* C9 -- Per-message failure isolation: when the processing of one new UID
\* raises, every other new UID of the same cycle still gets its alert in that
\* cycle.
FalloPorMensajeAislado ==
    (CicloTerminado /\ ciclo.fin = "error_mensaje")
    => \A u \in (uids_actuales \ ciclo.K) \ {ciclo.fallo} :
           ciclo.enviados[u] = 1

-----------------------------------------------------------------------------
(* Address extraction (checked under SpecLimpio) *)

\* position of the first '<' and of the first '>' after it
PrimerMenor(s) == CHOOSE i \in 1..Len(s) :
                      s[i] = "<" /\ \A k \in 1..(i - 1) : s[k] # "<"
PrimerMayorTras(s, i) == CHOOSE j \in (i + 1)..Len(s) :
                             s[j] = ">" /\ \A k \in (i + 1)..(j - 1) : s[k] # ">"

Veces(s, c) == Cardinality({ i \in 1..Len(s) : s[i] = c })

\* one '<', one '>' after it: a display name with a bracketed address
TieneDireccionEntreAngulos(s) ==
    /\ Veces(s, "<") = 1
    /\ Veces(s, ">") = 1
    /\ \E i \in 1..Len(s), j \in 1..Len(s) : i < j /\ s[i] = "<" /\ s[j] = ">"

EntreAngulos(s) ==
    LET i == PrimerMenor(s)
        j == PrimerMayorTras(s, i)
    IN  SubSeq(s, i + 1, j - 1)

\* C10 -- Address extraction: the stored address is the text between '<' and
\* '>' when the sender has an angle-bracketed address (nothing before '<',
\* nothing after '>'), and the raw sender when it has no angle bracket.
ExtraccionDeDireccion ==
    (wpc = "saneado")
    => /\ TieneDireccionEntreAngulos(remitente)
             => ultimo_remitente = EntreAngulos(remitente)
       /\ (~TieneChar(remitente, "<") /\ ~TieneChar(remitente, ">"))
             => ultimo_remitente = remitente

-----------------------------------------------------------------------------
(* Properties of the chat handler (checked under Spec)                     *)
(* What a turn delivered is known from `turno`, the record of a turn of    *)
(* the observed worker thread that overlapped no other turn; what is said  *)
(* of the flags alone holds of every thread, overlapping or not.           *)


\* C5 -- Ticket-flow termination: a chat line handled while modo_ticket is
\* set, in a turn that overlaps no other, leaves both mode flags false,
\* whatever its text; the reply is the mock ticket when the text has an
\* affirmative keyword and the 'no ticket' acknowledgement otherwise.
FlujoTicketTermina ==
    (TurnoTerminado /\ turno.inicio = "ticket" /\ turno.fin = "ok")
    => /\ ~modo_ticket
       /\ ~modo_respuesta
       /\ turno.respuestas =
             << IF ContieneAlguna(Lower(turno.texto), KwTicketSi)
                THEN "ticket_creado" ELSE "sin_ticket" >>
       /\ turno.ia = 0
       /\ turno.correos = <<>>

FlujoTicketTerminaTestigo ==
    /\ TurnoTerminado
    /\ turno.inicio = "ticket"
    /\ turno.fin = "ok"
    /\ turno.texto = <<"n","o">>
    /\ turno.respuestas = <<"sin_ticket">>
    /\ ~modo_ticket

\* C6 -- Round trip, of turns that overlap no other: in Idle with a pending
\* sender, an affirmative line sets modo_respuesta and asks for the
\* dictation; the handling of the next line
\* makes exactly one send, addressed to state.ultimo_remitente with subject
\* "Re: " + state.ultimo_asunto, and returns with modo_respuesta cleared and
\* modo_ticket set exactly when the send succeeded and the drafted body has a
\* support-incident keyword.
IdaYVuelta ==
    /\ [][ (/\ cpc[Observado] = "libre" /\ ~modo_ticket /\ ~modo_respuesta
            /\ Truthy(ultimo_remitente)
            /\ cpc'[Observado] = "fin"
            /\ ContieneAlguna(Lower(turno.texto), KwResponder))
           => /\ modo_respuesta' /\ ~modo_ticket'
              /\ turno'.fin = "ok" => turno'.respuestas = <<"que_respondemos">>
         ]_vars
    /\ [][ (en_serie /\ cpc[Observado] = "ia" /\ cpc'[Observado] # "ia")
           => /\ Len(turno'.correos) = 1
              /\ turno'.correos[1].para = ultimo_remitente
              /\ turno'.correos[1].asunto = <<"R","e",":"," ">> \o ultimo_asunto
         ]_vars
    /\ []( (TurnoTerminado /\ turno.inicio = "respuesta" /\ turno.fin = "ok")
           => /\ Len(turno.correos) = 1
              /\ ~modo_respuesta
              /\ modo_ticket <=>
                    (/\ turno.correos[1].exito
                     /\ ContieneAlguna(Lower(turno.correos[1].cuerpo),
                                       KwIncidencia)) )

IdaYVueltaTestigo ==
    /\ TurnoTerminado
    /\ turno.inicio = "respuesta"
    /\ turno.fin = "ok"
    /\ turno.correos[1].exito
    /\ turno.correos[1].para = <<"a"," ","w">>
    /\ turno.correos[1].asunto = <<"R","e",":"," ","s">>
    /\ modo_ticket

\* C7 -- Mode mutual exclusion: at every point of execution, inside a chat
\* turn as well as between turns, at most one of modo_respuesta and
\* modo_ticket is set.
ExclusionDeModos == ~(modo_respuesta /\ modo_ticket)

-----------------------------------------------------------------------------
(* Further properties of the watcher (checked under SpecVigia) *)

\* C11 -- No lost notifications: after the initial sync a UID enters
\* uids_conocidos only in a cycle that pushed its alert; a cycle that ends
\* without error has pushed the alert of every UID it found new; and an
\* aborted cycle leaves uids_conocidos as it was, so that the UIDs it met are
\* new again in the next cycle.
SinPerdidas ==
    /\ [][ ~primera_vuelta =>
             \A u \in uids_conocidos' \ uids_conocidos :
                 ciclo.enviados[u] >= 1 ]_vars
    /\ []( (CicloTerminado /\ ciclo.fin = "ok" /\ ~ciclo.inicial)
           => \A u \in uids_actuales \ ciclo.K : ciclo.enviados[u] >= 1 )
    /\ []( (CicloTerminado /\ ~ciclo.inicial
            /\ ciclo.fin \in {"error_conexion", "error_listado",
                              "error_mensaje"})
           => uids_conocidos = ciclo.K )

\* a cycle aborted on its second new UID, after the alert of the first
SinPerdidasTestigo ==
    /\ CicloTerminado
    /\ ciclo.fin = "error_mensaje"
    /\ \E u \in uids_actuales \ ciclo.K :
           /\ ciclo.enviados[u] = 1
           /\ u \notin uids_conocidos

\* C13 -- Session closure: a cycle that opened a mailbox session has closed
\* it when the watcher goes to sleep, whether the cycle completed or was
\* aborted by an error in listing, fetching, summarizing or notifying.
SesionCerrada ==
    (CicloTerminado /\ ciclo.fin \in {"ok", "error_listado", "error_mensaje"})
    => ~sesion

\* C14 -- Watcher liveness: whatever step of a cycle fails, the cycle ends at
\* the sleep of line 387, and the sleep is followed by the start of another
\* cycle; a new cycle begins again and again.
CicloSiempreRecomienza ==
    /\ [](wpc \in {"conectar", "listar", "bucle", "notificar", "cerrar",
                   "dormir"})
    /\ (wpc # "dormir") ~> CicloTerminado
    /\ CicloTerminado ~> (wpc = "conectar")
    /\ []<>(wpc = "conectar")

\* the watcher about to sleep after a cycle that broke off inside the
\* for-loop: the UID it was at is not in uids_conocidos, the session is open
CicloSiempreRecomienzaTestigo ==
    /\ CicloTerminado
    /\ ~primera_vuelta
    /\ uid \in uids_actuales \ uids_conocidos
    /\ sesion
    /\ ENABLED WDormir

\* the lines of a listing with two fields or more and a number first
BienFormadas(items) ==
    { i \in 1..Len(items) :
        /\ Len(Split(items[i], " ")) >= 2
        /\ EsEntero(Split(items[i], " ")[1]) }

\* C18 -- Malformed listing lines are skipped: whatever lines uidl() returned,
\* the cycle is not aborted at the listing, and the current set and the map
\* hold exactly the entries of the well-formed lines.
LineasMalasOmitidas ==
    ciclo.items # SinRespuesta
    => /\ ciclo.listado
       /\ ciclo.fin # "error_listado"
       /\ uids_actuales =
             { Split(ciclo.items[i], " ")[2] : i \in BienFormadas(ciclo.items) }
       /\ \A i \in BienFormadas(ciclo.items) :
             MapGet(uid_map, Split(ciclo.items[i], " ")[2])
                 = ParseInt(Split(ciclo.items[i], " ")[1])

\* C19 -- The initial sync is consumed only by a listing that succeeds: as
\* long as primera_vuelta holds, through any number of cycles that failed at
\* the connection, the authentication or the listing, uids_conocidos is empty
\* and no alert has been pushed; primera_vuelta is cleared only by the step
\* that lists successfully, which copies the listing into uids_conocidos and
\* pushes no alert.
SincroSoloConListado ==
    /\ []( primera_vuelta
           => /\ uids_conocidos = {}
              /\ ~ciclo.listado
              /\ \A u \in Uids : notificaciones[u] = 0 )
    /\ [][ (primera_vuelta /\ ~primera_vuelta')
           => /\ wpc = "listar"
              /\ ciclo'.listado /\ ciclo'.inicial
              /\ ciclo'.items # SinRespuesta
              /\ uids_conocidos' = uids_actuales'
              /\ pendientes' = {}
              /\ notificaciones' = notificaciones
         ]_vars
    /\ [][ (primera_vuelta /\ CicloTerminado' /\ ~ciclo'.listado)
           => primera_vuelta' ]_vars

\* the first rounds failed, one of them at the listing; the watcher is still
\* in its first round
SincroSoloConListadoTestigo ==
    /\ CicloTerminado
    /\ primera_vuelta
    /\ ciclo.fin = "error_listado"
    /\ ciclo.items # SinRespuesta
    /\ sesion
    /\ uids_conocidos = {}

-----------------------------------------------------------------------------
(* Further properties of the chat handler (checked under Spec) *)

\* C12 -- The reply mode is not sticky: the handling of a line in reply mode,
\* on any thread, returns with modo_respuesta just cleared, whatever the
\* line, the answer of the model and the outcome of the send; in a turn that
\* overlaps no other, after a failed send the operator has
\* the SMTP-error reply and no mode is pending; and modo_ticket is set only
\* by line 282 of a reply turn, of any thread, which the recorded turn
\* reaches only when the send succeeded and the body has a support-incident
\* keyword.
RespuestaNoPegajosa ==
    /\ [][ \A h \in Manejadores :
              (cpc[h] = "limpiar" /\ cpc'[h] # "limpiar") => ~modo_respuesta'
         ]_vars
    /\ []( (TurnoTerminado /\ turno.inicio = "respuesta" /\ turno.fin = "ok")
           => /\ ~modo_respuesta
              /\ ~turno.correos[1].exito
                    => /\ turno.respuestas = <<"redactando", "error_smtp">>
                       /\ ~modo_ticket )
    /\ [][ (~modo_ticket /\ modo_ticket')
           => \E h \in Manejadores :
                 /\ cpc[h] = "sugerir" /\ cpc'[h] = "limpiar"
                 /\ (h = Observado /\ en_serie)
                       => /\ turno'.correos[1].exito
                          /\ ContieneAlguna(Lower(turno'.correos[1].cuerpo),
                                            KwIncidencia)
         ]_vars

\* the model was down and the send failed; the turn returned to Idle
RespuestaNoPegajosaTestigo ==
    /\ TurnoTerminado
    /\ turno.inicio = "respuesta"
    /\ turno.fin = "ok"
    /\ turno.correos[1].cuerpo = ErrorIA
    /\ ~turno.correos[1].exito
    /\ turno.respuestas = <<"redactando", "error_smtp">>
    /\ ~modo_respuesta /\ ~modo_ticket

\* C15 -- The race on BotState: between the prompt (lines 241-264) and the
\* send (line 268) of a reply turn nothing holds the watcher back from lines
\* 358-359, and when it has run them in between, the mail goes to a
\* recipient, and with a subject, other than those the prompt embedded.
CarreraDocumentada ==
    /\ []( (cpc[Observado] = "ia" /\ wpc = "bucle" /\ pendientes # {})
           => ENABLED (\E u \in pendientes, msg \in Mensajes :
                          WDescargar(u, msg, TRUE)) )
    /\ [][ (en_serie /\ cpc[Observado] = "ia" /\ cpc'[Observado] # "ia")
           => /\ turno'.desfase <=>
                    (turno.prompt # <<ultimo_remitente, ultimo_asunto>>)
              /\ turno'.desfase =>
                    /\ turno'.correos[1].para # turno.prompt[1]
                    /\ turno'.correos[1].asunto #
                           <<"R","e",":"," ">> \o turno.prompt[2]
         ]_vars

\* a reply turn that returned after a successful send to another recipient
\* than the one of its prompt
CarreraDocumentadaTestigo ==
    /\ TurnoTerminado
    /\ turno.inicio = "respuesta"
    /\ turno.fin = "ok"
    /\ turno.desfase
    /\ turno.correos[1].exito
    /\ turno.correos[1].para = ultimo_remitente

\* C16 (as claimed) -- Reply mode needs a pending sender: with no mode pending
\* and state.ultimo_remitente unset (None or empty, as line 291 tests it), an
\* affirmative line gets the "no recent mail" answer and sets no mode;
\* modo_respuesta is set only by such a line, on any thread, when line 291
\* finds a sender, and with modo_ticket clear when no turns have overlapped;
\* hence, in every state, modo_respuesta implies that state.ultimo_remitente
\* is set in that same sense.
ResponderImplicaPendiente ==
    /\ [][ (/\ cpc[Observado] = "libre" /\ ~modo_ticket /\ ~modo_respuesta
            /\ ~Truthy(ultimo_remitente)
            /\ cpc'[Observado] = "fin"
            /\ ContieneAlguna(Lower(turno.texto), KwResponder))
           => /\ ~modo_respuesta' /\ ~modo_ticket'
              /\ turno'.fin = "ok" => turno'.respuestas = <<"sin_correos">>
         ]_vars
    /\ [][ (~modo_respuesta /\ modo_respuesta')
           => \E h \in Manejadores :
                 /\ cpc[h] = "libre" /\ cpc'[h] # "libre"
                 /\ Truthy(ultimo_remitente)
                 /\ ContieneAlguna(Lower(entrada[h]), KwResponder)
                 /\ en_serie => ~modo_ticket
         ]_vars
    /\ [](modo_respuesta => Truthy(ultimo_remitente))

\* C16 (amended) -- Reply mode needs a pending sender when it is entered: the
\* first two statements as above; while modo_respuesta is pending the watcher
\* may store another sender, the empty string of a "From: <>" header
\* included, so that in every state modo_respuesta implies only that some
\* mail has been recorded: state.ultimo_remitente is no longer None.
ResponderPidePendiente ==
    /\ [][ (/\ cpc[Observado] = "libre" /\ ~modo_ticket /\ ~modo_respuesta
            /\ ~Truthy(ultimo_remitente)
            /\ cpc'[Observado] = "fin"
            /\ ContieneAlguna(Lower(turno.texto), KwResponder))
           => /\ ~modo_respuesta' /\ ~modo_ticket'
              /\ turno'.fin = "ok" => turno'.respuestas = <<"sin_correos">>
         ]_vars
    /\ [][ (~modo_respuesta /\ modo_respuesta')
           => \E h \in Manejadores :
                 /\ cpc[h] = "libre" /\ cpc'[h] # "libre"
                 /\ Truthy(ultimo_remitente)
                 /\ ContieneAlguna(Lower(entrada[h]), KwResponder)
                 /\ en_serie => ~modo_ticket
         ]_vars
    /\ [](modo_respuesta => ultimo_remitente # None)

\* "No SI'" typed before any mail arrived
ResponderPidePendienteTestigo ==
    /\ TurnoTerminado
    /\ turno.inicio = "libre"
    /\ turno.fin = "ok"
    /\ turno.texto = <<"N","o"," ","S","I'">>
    /\ ultimo_remitente = None
    /\ turno.respuestas = <<"sin_correos">>
    /\ ~modo_respuesta

\* C17 (as claimed) -- Idle dismissal: with no mode pending and in a turn
\* that overlaps no other, every line that
\* contains a dismissal keyword, whatever else it contains, is answered with
\* the acknowledgement, sets no mode and makes no call of the model.
DespedidaSiempre ==
    (/\ TurnoTerminado /\ turno.inicio = "libre" /\ turno.fin = "ok"
     /\ ContieneAlguna(Lower(turno.texto), KwNo))
    => /\ turno.respuestas = <<"enterado">>
       /\ ~modo_respuesta /\ ~modo_ticket
       /\ turno.ia = 0

\* C17 (amended) -- Idle dismissal: with no mode pending and in a turn that
\* overlaps no other, every line that
\* contains a dismissal keyword and no affirmative keyword (line 290 is tested
\* first) is answered with the acknowledgement, sets no mode and makes no call
\* of the model, whether or not a sender is pending.
DespedidaSinAfirmacion ==
    (/\ TurnoTerminado /\ turno.inicio = "libre" /\ turno.fin = "ok"
     /\ ContieneAlguna(Lower(turno.texto), KwNo)
     /\ ~ContieneAlguna(Lower(turno.texto), KwResponder))
    => /\ turno.respuestas = <<"enterado">>
       /\ ~modo_respuesta /\ ~modo_ticket
       /\ turno.ia = 0

\* "no" typed while a sender is pending
DespedidaSinAfirmacionTestigo ==
    /\ TurnoTerminado
    /\ turno.inicio = "libre"
    /\ turno.fin = "ok"
    /\ turno.texto = <<"n","o">>
    /\ turno.pendiente
    /\ turno.respuestas = <<"enterado">>
    /\ ~modo_respuesta

\* C20 -- Who writes what in BotState: no step of the chat handler, in any
\* mode and on any line, changes ultimo_remitente or ultimo_asunto, which are
\* thus never cleared once a mail has set them; no step of the watcher,
\* however its cycle ends, changes modo_respuesta or modo_ticket. (Every
\* step of a handler, on either thread, moves cpc and every step of the
\* watcher moves wpc.)
CamposConDueno ==
    /\ [][ cpc' # cpc => UNCHANGED <<ultimo_remitente, ultimo_asunto>> ]_vars
    /\ [][ wpc' # wpc => UNCHANGED <<modo_respuesta, modo_ticket>> ]_vars
    /\ [][ ultimo_remitente # None
           => (ultimo_remitente' # None /\ ultimo_asunto' # None) ]_vars

\* a reply was sent and the turn returned: the sender and the subject it went
\* to are still pending, for a later affirmative line to reply to again
CamposConDuenoTestigo ==
    /\ TurnoTerminado
    /\ turno.inicio = "respuesta"
    /\ turno.fin = "ok"
    /\ turno.correos[1].exito
    /\ ~turno.desfase
    /\ Truthy(ultimo_remitente)
    /\ turno.correos[1].para = ultimo_remitente
    /\ turno.correos[1].asunto = <<"R","e",":"," ">> \o ultimo_asunto
    /\ ~modo_respuesta /\ ~modo_ticket

====
